---- MODULE Spec2Model ----
(***************************************************************************)
(* Order status state machine, stock ledger and order routes of the        *)
(* vibedrinks server (server routes, src/unnamed/part_009; shared schema,  *)
(* src/unnamed/part_000).                                                  *)
(*                                                                         *)
(* Every request handler is one action.  The response of the last request  *)
(* and the events it published are kept in the variable last, so that the  *)
(* properties can speak about what a request returned and what it changed. *)
(***************************************************************************)
EXTENDS Integers, Sequences, FiniteSets, TLC

VARIABLES orders, orderItems, preparationIngredients, products, stockLogs,
          nextOrderId, now, last, orderClients, received, inflight,
          heartbeats, cart, stockAlertProduct

vars == <<orders, orderItems, preparationIngredients, products, stockLogs,
          nextOrderId, now, last, orderClients, received, inflight,
          heartbeats, cart, stockAlertProduct>>

(***************************************************************************)
(* Bounds of the model.                                                    *)
(***************************************************************************)
MaxOrders == 1      \* rows of the orders table
MaxItemRows == 2    \* rows of the order_items table
MaxLogs == 4        \* rows of the stock_logs table
MaxIngredients == 1 \* rows of the preparation_ingredients table
MaxStock == 2       \* largest stock a product starts with
MaxQty == 1         \* largest quantity of an order line or an ingredient
NumMotoboys == 1    \* couriers
MaxClients == 2     \* SSE connections ever opened
MaxReceived == 3    \* messages written to one SSE connection
MaxInflight == 2    \* handlers in flight at a time
MaxRaceOrders == 2  \* orders created by handlers in flight
MaxCartQty == 3     \* largest quantity of a line of the PDV cart

\* the "no value" of a nullable column: no id, timestamp or amount of the
\* model is negative
Null == -1

Max(a, b) == IF a >= b THEN a ELSE b

(***************************************************************************)
(* Strings are sequences of characters, so that toLowerCase, toUpperCase   *)
(* and includes are computed as JavaScript computes them.                  *)
(***************************************************************************)
UpperChars == <<"A","B","C","D","E","F","G","H","I","J","K","L","M",
                "N","O","P","Q","R","S","T","U","V","W","X","Y","Z">>
LowerChars == <<"a","b","c","d","e","f","g","h","i","j","k","l","m",
                "n","o","p","q","r","s","t","u","v","w","x","y","z">>

lowerChar(c) ==
  IF \E i \in 1..26 : UpperChars[i] = c
    THEN LowerChars[CHOOSE i \in 1..26 : UpperChars[i] = c]
    ELSE c

upperChar(c) ==
  IF \E i \in 1..26 : LowerChars[i] = c
    THEN UpperChars[CHOOSE i \in 1..26 : LowerChars[i] = c]
    ELSE c

toLowerCase(s) == [i \in 1..Len(s) |-> lowerChar(s[i])]

toUpperCase(s) == [i \in 1..Len(s) |-> upperChar(s[i])]

\* String.prototype.includes
includes(hay, needle) ==
  \E i \in 0..(Len(hay) - Len(needle)) :
     SubSeq(hay, i + 1, i + Len(needle)) = needle

\* String.prototype.trim (blanks only)
RECURSIVE trimLeft(_)
trimLeft(s) ==
  IF s # <<>> /\ Head(s) = " " THEN trimLeft(Tail(s)) ELSE s

RECURSIVE trimRight(_)
trimRight(s) ==
  IF s # <<>> /\ s[Len(s)] = " " THEN trimRight(SubSeq(s, 1, Len(s) - 1)) ELSE s

trim(s) == trimRight(trimLeft(s))

(***************************************************************************)
(* Shared schema: the prepared categories and isPreparedCategoryName.      *)
(***************************************************************************)
PREPARED_CATEGORIES ==
  << <<"C","A","I","P","I","R","I","N","H","A","S">>,
     <<"D","O","S","E","S">>,
     <<"B","A","T","I","D","A","S">>,
     <<"C","O","P","A","O">>,
     <<"D","R","I","N","K","S"," ","E","S","P","E","C","I","A","I","S">>,
     <<"C","A","I","P","I"," ","I","C","E","S">>,
     <<"D","R","I","N","K","S">>,
     <<"C","O","P","O","S">> >>

isPreparedCategoryName(categoryName) ==
  LET normalizedName == trim(toUpperCase(categoryName))
  IN  \E k \in 1..Len(PREPARED_CATEGORIES) :
         LET cat == PREPARED_CATEGORIES[k]
         IN  \/ normalizedName = cat
             \/ includes(normalizedName, cat)
             \/ includes(cat, normalizedName)

(***************************************************************************)
(* The catalog: categories and the products' category and isPrepared flag. *)
(***************************************************************************)
CategoryIds == 1..3

CategoryName(c) ==
  CASE c = 1 -> <<"C","E","R","V","E","J","A","S">>
    [] c = 2 -> <<"D","r","i","n","k","s">>
    [] c = 3 -> <<"D","o","s","e","s"," ","e"," ","S","h","o","t","s">>

ProductIds == 1..4

\* product 1: tracked stock; product 2: category "Drinks"; product 3:
\* category "Doses e Shots"; product 4: isPrepared, in a tracked category
ProductCategory(p) ==
  CASE p = 1 -> 1
    [] p = 2 -> 2
    [] p = 3 -> 3
    [] p = 4 -> 1

ProductIsPrepared(p) == p = 4


\* storage.getCategories(): the rows of the categories table
categories == [c \in CategoryIds |-> [id |-> c, name |-> CategoryName(c)]]

MotoboyIds == 1..NumMotoboys

(***************************************************************************)
(* The transition tables and isValidStatusTransition.                      *)
(***************************************************************************)
Statuses == {"pending", "accepted", "preparing", "ready",
             "dispatched", "arrived", "delivered", "cancelled"}

\* the delivery table with a way back from arrived to dispatched
VALID_STATUS_TRANSITIONS_wayBack ==
  [pending    |-> <<"accepted", "cancelled">>,
   accepted   |-> <<"preparing", "cancelled">>,
   preparing  |-> <<"ready", "cancelled">>,
   ready      |-> <<"dispatched", "cancelled">>,
   dispatched |-> <<"arrived", "delivered", "cancelled">>,
   arrived    |-> <<"dispatched", "delivered", "cancelled">>,
   delivered  |-> <<>>,
   cancelled  |-> <<>>]

\* the delivery table without cancellation once the courier has the order
VALID_STATUS_TRANSITIONS_noLateCancel ==
  [pending    |-> <<"accepted", "cancelled">>,
   accepted   |-> <<"preparing", "cancelled">>,
   preparing  |-> <<"ready", "cancelled">>,
   ready      |-> <<"dispatched", "cancelled">>,
   dispatched |-> <<"arrived", "delivered">>,
   arrived    |-> <<"delivered">>,
   delivered  |-> <<>>,
   cancelled  |-> <<>>]

\* the delivery table with cancellation allowed from every status
VALID_STATUS_TRANSITIONS_cancelAnywhere ==
  [pending    |-> <<"accepted", "cancelled">>,
   accepted   |-> <<"preparing", "cancelled">>,
   preparing  |-> <<"ready", "cancelled">>,
   ready      |-> <<"dispatched", "cancelled">>,
   dispatched |-> <<"arrived", "delivered", "cancelled">>,
   arrived    |-> <<"delivered", "cancelled">>,
   delivered  |-> <<"cancelled">>,
   cancelled  |-> <<>>]

VALID_STATUS_TRANSITIONS ==
  [pending    |-> <<"accepted", "cancelled">>,
   accepted   |-> <<"preparing", "cancelled">>,
   preparing  |-> <<"ready", "cancelled">>,
   ready      |-> <<"dispatched", "cancelled">>,
   dispatched |-> <<"arrived", "delivered", "cancelled">>,
   arrived    |-> <<"delivered", "cancelled">>,
   delivered  |-> <<>>,
   cancelled  |-> <<>>]

\* the counter table with the hand-over to a courier left in the row of ready
COUNTER_TRANSITIONS_withDispatch ==
  [pending    |-> <<"accepted", "cancelled">>,
   accepted   |-> <<"preparing", "cancelled">>,
   preparing  |-> <<"ready", "cancelled">>,
   ready      |-> <<"dispatched", "delivered", "cancelled">>,
   dispatched |-> <<"delivered", "cancelled">>,
   delivered  |-> <<>>,
   cancelled  |-> <<>>]

\* the counter table as a copy of the delivery table
COUNTER_TRANSITIONS_asDelivery == VALID_STATUS_TRANSITIONS

COUNTER_TRANSITIONS ==
  [pending    |-> <<"accepted", "cancelled">>,
   accepted   |-> <<"preparing", "cancelled">>,
   preparing  |-> <<"ready", "cancelled">>,
   ready      |-> <<"delivered", "cancelled">>,
   delivered  |-> <<>>,
   cancelled  |-> <<>>]

\* Array.prototype.includes
arrayIncludes(arr, x) == \E i \in 1..Len(arr) : arr[i] = x

\* isValidStatusTransition that returns the row without its last status
isValidStatusTransition_shortRow(currentStatus, newStatus, orderType) ==
  LET transitions == IF orderType = "counter"
                       THEN COUNTER_TRANSITIONS
                       ELSE VALID_STATUS_TRANSITIONS
      allowed == IF currentStatus \in DOMAIN transitions
                   THEN transitions[currentStatus]
                   ELSE <<>>
  IN  [valid |-> arrayIncludes(allowed, newStatus),
       transitions |-> IF allowed = <<>> THEN <<>>
                       ELSE SubSeq(allowed, 1, Len(allowed) - 1)]

\* isValidStatusTransition without the branch on the order type
isValidStatusTransition_oneTable(currentStatus, newStatus, orderType) ==
  LET allowed == IF currentStatus \in DOMAIN VALID_STATUS_TRANSITIONS
                   THEN VALID_STATUS_TRANSITIONS[currentStatus]
                   ELSE <<>>
  IN  [valid |-> arrayIncludes(allowed, newStatus), transitions |-> allowed]

isValidStatusTransition(currentStatus, newStatus, orderType) ==
  LET transitions == IF orderType = "counter"
                       THEN COUNTER_TRANSITIONS
                       ELSE VALID_STATUS_TRANSITIONS
      allowed == IF currentStatus \in DOMAIN transitions
                   THEN transitions[currentStatus]
                   ELSE <<>>
  IN  [valid |-> arrayIncludes(allowed, newStatus), transitions |-> allowed]

(***************************************************************************)
(* Storage: the tables are the variables.  An order row carries the        *)
(* columns of the orders table the handlers read or write.                 *)
(***************************************************************************)
TimestampFields == {"acceptedAt", "preparingAt", "readyAt",
                    "dispatchedAt", "arrivedAt", "deliveredAt"}

\* storage.updateOrder(id, updates): overwrite the columns named in updates
updateOrder(order, updates) ==
  [f \in DOMAIN order |-> IF f \in DOMAIN updates THEN updates[f] ELSE order[f]]

\* storage.updateProduct(id, { stock })
updateProduct(prods, productId, newStock) ==
  [prods EXCEPT ![productId].stock = newStock]

\* storage.getOrderItems(orderId)
getOrderItems(rows, orderId) == SelectSeq(rows, LAMBDA r : r.orderId = orderId)

\* order.id.slice(0, 8): ids are the 8 characters of the prefix followed by
\* the rest of the uuid
OrderUuid(id) == <<"0", "0", "0", "0", "0", "0", "0", id, "-", "4", id>>

slice8(uuid) == SubSeq(uuid, 1, 8)

(***************************************************************************)
(* The stock rules of the order routes.                                    *)
(***************************************************************************)
preparedCategoryNames ==
  << <<"d","o","s","e","s">>,
     <<"c","a","i","p","i","r","i","n","h","a","s">>,
     <<"b","a","t","i","d","a","s">>,
     <<"d","r","i","n","k","s"," ","e","s","p","e","c","i","a","i","s">>,
     <<"c","o","p","a","o">> >>

\* ids of the categories whose name contains one of preparedCategoryNames
preparedCategoryIds ==
  {categories[c].id : c \in
     {c \in CategoryIds :
        \E k \in 1..Len(preparedCategoryNames) :
           includes(toLowerCase(categories[c].name),
                    toLowerCase(preparedCategoryNames[k]))}}

isPreparedProduct(product) ==
  product.isPrepared \/ product.categoryId \in preparedCategoryIds

\* the deduction without Math.max
deductedStock_noClamp(previousStock, quantity) == previousStock - quantity

\* Math.max(0, previousStock - quantity)
deductedStock(previousStock, quantity) == Max(0, previousStock - quantity)

\* the restoration with the arithmetic of the deduction
restoredStock_asDeduction(previousStock, quantity) ==
  Max(0, previousStock - quantity)

\* previousStock + item.quantity
restoredStock(previousStock, quantity) == previousStock + quantity

\* the items loop of POST /api/orders on the products and the stock log
RECURSIVE deductItems(_, _, _, _)
deductItems(items, prods, logs, orderId) ==
  IF items = <<>> THEN [products |-> prods, stockLogs |-> logs]
  ELSE LET item == Head(items)
           product == prods[item.productId]
       IN  IF ~isPreparedProduct(product)
             THEN LET previousStock == product.stock
                      newStock == deductedStock(previousStock, item.quantity)
                  IN  deductItems(Tail(items),
                        updateProduct(prods, item.productId, newStock),
                        Append(logs, [productId |-> item.productId,
                                      previousStock |-> previousStock,
                                      newStock |-> newStock,
                                      change |-> -item.quantity,
                                      reason |-> [kind |-> "Pedido",
                                                  ref |-> slice8(OrderUuid(orderId))]]),
                        orderId)
             ELSE deductItems(Tail(items), prods, logs, orderId)

\* the items loop of case "cancelled" leaving after the first item
restoreItems_firstOnly(items, prods, logs, orderId) ==
  IF items = <<>> THEN [products |-> prods, stockLogs |-> logs]
  ELSE LET item == Head(items)
           product == prods[item.productId]
       IN  IF ~isPreparedProduct(product)
             THEN [products |-> updateProduct(prods, item.productId,
                                  product.stock + item.quantity),
                   stockLogs |->
                     Append(logs, [productId |-> item.productId,
                                   previousStock |-> product.stock,
                                   newStock |-> product.stock + item.quantity,
                                   change |-> item.quantity,
                                   reason |-> [kind |-> "Cancelamento pedido",
                                               ref |-> slice8(OrderUuid(orderId))]])]
             ELSE [products |-> prods, stockLogs |-> logs]

\* the items loop of case "cancelled" of PATCH /api/orders/:id/status
RECURSIVE restoreItems(_, _, _, _)
restoreItems(items, prods, logs, orderId) ==
  IF items = <<>> THEN [products |-> prods, stockLogs |-> logs]
  ELSE LET item == Head(items)
           product == prods[item.productId]
       IN  IF ~isPreparedProduct(product)
             THEN LET previousStock == product.stock
                      newStock == restoredStock(previousStock, item.quantity)
                  IN  restoreItems(Tail(items),
                        updateProduct(prods, item.productId, newStock),
                        Append(logs, [productId |-> item.productId,
                                      previousStock |-> previousStock,
                                      newStock |-> newStock,
                                      change |-> item.quantity,
                                      reason |-> [kind |-> "Cancelamento pedido",
                                                  ref |-> slice8(OrderUuid(orderId))]]),
                        orderId)
             ELSE restoreItems(Tail(items), prods, logs, orderId)

\* number of stock log rows a loop over items appends
RECURSIVE trackedLines(_, _)
trackedLines(items, prods) ==
  IF items = <<>> THEN 0
  ELSE (IF isPreparedProduct(prods[Head(items).productId]) THEN 0 ELSE 1)
       + trackedLines(Tail(items), prods)


(***************************************************************************)
(* Requests and responses.                                                 *)
(***************************************************************************)
OrderIds == 1..MaxOrders

OrderTypes == {"delivery", "counter"}

\* a status a PATCH /status request may carry: the eight statuses and one
\* that is none of them
RequestStatuses == Statuses \cup {"refunded"}

Quantities == 1..MaxQty

ItemInputs == [productId : ProductIds, quantity : Quantities]

\* the item lists of a request body: at most as many lines as the
\* order_items table still takes
ItemLists(room) ==
  UNION {[1..n -> ItemInputs] : n \in 0..(IF room < 0 THEN 0 ELSE room)}

\* the products an ingredient request names: one with tracked stock, one
\* with the isPrepared flag
IngredientProductIds == {1, 4}

\* the monetary fields a client sends, in cents: Checkout sends a delivery
\* fee and no discount, the PDV a manual discount and no fee
bodyMoney(orderType) ==
  IF orderType = "counter"
    THEN [subtotal |-> 1000, deliveryFee |-> 0, discount |-> 200, total |-> 800]
    ELSE [subtotal |-> 1000, deliveryFee |-> 500, discount |-> 0, total |-> 1500]

\* PDV: isProductPrepared
isProductPrepared(product) ==
  IF product.isPrepared THEN TRUE
  ELSE isPreparedCategoryName(categories[product.categoryId].name)

\* PDV handleConfirmPayment: the status of the order it posts
initialStatus(items, prods) ==
  IF \E i \in 1..Len(items) : isProductPrepared(prods[items[i].productId])
    THEN "accepted"
    ELSE "ready"

NoEvents == <<>>

\* what a request returned: the route, the order, the HTTP status, the
\* currentStatus and allowedTransitions of a 400 of PATCH /status, the
\* events the handler published and the SSE connections whose write threw
response(op, id, code, currentStatus, allowed, events) ==
  [op |-> op, id |-> id, code |-> code, currentStatus |-> currentStatus,
   allowedTransitions |-> allowed, events |-> events, pruned |-> {}]

\* broadcastOrderUpdate(event, data) as the handlers of the order routes
\* call it
orderEvent(event, orderId, status, previousStatus, motoboyId) ==
  [event |-> event, orderId |-> orderId, status |-> status,
   previousStatus |-> previousStatus, motoboyId |-> motoboyId]

(***************************************************************************)
(* The broadcaster: orderClients is the Set of open SSE responses in       *)
(* insertion order, received[c] what has been written to connection c.     *)
(***************************************************************************)
ClientIds == 1..MaxClients

Range(f) == {f[i] : i \in DOMAIN f}

\* the forEach that leaves a client whose write threw in the Set
forEachClient_keepsFailed(todo, clients, recv, message, failing) ==
  [orderClients |-> clients,
   received |-> [c \in DOMAIN recv |->
                   IF c \in Range(todo) \ failing
                     THEN Append(recv[c], message)
                     ELSE recv[c]]]

\* orderClients.forEach of broadcastOrderUpdate: write the message to each
\* client; a client whose write throws (one of failing) is deleted from the
\* Set, the iteration goes on with the clients after it
RECURSIVE forEachClient(_, _, _, _, _)
forEachClient(todo, clients, recv, message, failing) ==
  IF todo = <<>> THEN [orderClients |-> clients, received |-> recv]
  ELSE LET client == Head(todo)
       IN  IF client \in failing
             THEN forEachClient(Tail(todo),
                                SelectSeq(clients, LAMBDA c : c # client),
                                recv, message, failing)
             ELSE forEachClient(Tail(todo), clients,
                                [recv EXCEPT ![client] = Append(@, message)],
                                message, failing)

\* the broadcast that writes to the first client of the Set only
broadcastOrderUpdate_firstOnly(clients, recv, message, failing) ==
  forEachClient(IF clients = <<>> THEN <<>> ELSE <<Head(clients)>>,
                clients, recv, message, failing)

broadcastOrderUpdate(clients, recv, message, failing) ==
  forEachClient(clients, clients, recv, message, failing)

\* a handler broadcasts the event of its response and answers
publish(resp) ==
  \E failing \in SUBSET Range(orderClients) :
     LET sent == broadcastOrderUpdate(orderClients, received, resp.events[1], failing)
     IN  /\ \A c \in Range(orderClients) : Len(received[c]) < MaxReceived
         /\ orderClients' = sent.orderClients
         /\ received' = sent.received
         /\ last' = [resp EXCEPT !.pruned = failing]

\* storage.createOrder(req.body): the row of a new order whose body carries
\* the monetary fields money
insertOrder(orderType, status, money) ==
  [orderType |-> orderType, status |-> status,
   subtotal |-> money.subtotal, deliveryFee |-> money.deliveryFee,
   originalDeliveryFee |-> Null, deliveryFeeAdjusted |-> FALSE,
   deliveryFeeAdjustedAt |-> Null, discount |-> money.discount,
   total |-> money.total, motoboyId |-> Null,
   acceptedAt |-> Null, preparingAt |-> Null, readyAt |-> Null,
   dispatchedAt |-> Null, arrivedAt |-> Null, deliveredAt |-> Null]

\* storage.createOrder(req.body): the row of a new order
newOrder(orderType, status) ==
  insertOrder(orderType, status, bodyMoney(orderType))

Init ==
  /\ orders = <<>>
  /\ orderItems = <<>>
  /\ preparationIngredients = <<>>
  /\ \E s \in 0..MaxStock :
        products = [p \in ProductIds |->
                      [categoryId |-> ProductCategory(p),
                       isPrepared |-> ProductIsPrepared(p),
                       stock |-> s]]
  /\ stockLogs = <<>>
  /\ nextOrderId = 1
  /\ now = 1
  /\ last = response("none", Null, Null, "", <<>>, NoEvents)
  /\ orderClients = <<>>
  /\ received = [c \in ClientIds |-> <<>>]
  /\ inflight = <<>>
  /\ heartbeats = {}
  /\ cart = <<>>
  /\ stockAlertProduct = Null

\* POST /api/orders with a body whose monetary fields are money
CreateOrderOf(orderType, status, hasUserId, items, money) ==
  IF orderType # "counter" /\ ~hasUserId
    THEN /\ last' = response("create", Null, 401, "", <<>>, NoEvents)
         /\ UNCHANGED <<orders, orderItems, preparationIngredients, products,
                        stockLogs, nextOrderId, now,
                        orderClients, received, inflight,
                        heartbeats, cart, stockAlertProduct>>
    ELSE /\ nextOrderId <= MaxOrders
         /\ Len(stockLogs) + trackedLines(items, products) <= MaxLogs
         /\ LET id == nextOrderId
                order == insertOrder(orderType, status, money)
                rows == [i \in 1..Len(items) |->
                           [orderId |-> id, productId |-> items[i].productId,
                            quantity |-> items[i].quantity]]
                stock == deductItems(items, products, stockLogs, id)
            IN  /\ orders' = (id :> order) @@ orders
                /\ orderItems' = orderItems \o rows
                /\ products' = stock.products
                /\ stockLogs' = stock.stockLogs
                /\ nextOrderId' = id + 1
                /\ publish(response("create", id, 201, "", <<>>,
                             <<orderEvent("order_created", id, order.status, "", Null)>>))
         /\ UNCHANGED <<preparationIngredients, now, inflight,
                        heartbeats, cart, stockAlertProduct>>

\* POST /api/orders
CreateOrder(orderType, status, hasUserId, items) ==
  CreateOrderOf(orderType, status, hasUserId, items, bodyMoney(orderType))

\* Checkout posts a body without orderType and status: the columns take
\* their defaults, delivery and pending
CheckoutOrder ==
  \E hasUserId \in BOOLEAN, items \in ItemLists(MaxItemRows - Len(orderItems)) :
     CreateOrder("delivery", "pending", hasUserId, items)

\* the PDV posts a counter order of a cart that is not empty
PdvOrder ==
  \E items \in ItemLists(MaxItemRows - Len(orderItems)) \ {<<>>} :
     CreateOrder("counter", initialStatus(items, products), TRUE, items)

\* any other client: a body with any order type and status, without items
PostOrder ==
  \E orderType \in OrderTypes, status \in Statuses, hasUserId \in BOOLEAN :
     CreateOrder(orderType, status, hasUserId, <<>>)

\* POST /api/orders/:orderId/items/:itemId/ingredients
AddIngredient(orderId, itemId, ingredientProductId, quantity, shouldDeductStock) ==
  IF quantity = 0
    THEN /\ last' = response("ingredient", Null, 400, "", <<>>, NoEvents)
         /\ UNCHANGED <<orders, orderItems, preparationIngredients, products,
                        stockLogs, nextOrderId, now,
                        orderClients, received, inflight,
                        heartbeats, cart, stockAlertProduct>>
  ELSE IF itemId \notin 1..Len(orderItems)
    \* the insert violates the foreign key of order_item_id
    THEN /\ last' = response("ingredient", Null, 500, "", <<>>, NoEvents)
         /\ UNCHANGED <<orders, orderItems, preparationIngredients, products,
                        stockLogs, nextOrderId, now,
                        orderClients, received, inflight,
                        heartbeats, cart, stockAlertProduct>>
  ELSE /\ Len(preparationIngredients) < MaxIngredients
       /\ shouldDeductStock => Len(stockLogs) < MaxLogs
       /\ preparationIngredients' =
            Append(preparationIngredients,
                   [orderItemId |-> itemId,
                    ingredientProductId |-> ingredientProductId,
                    quantity |-> quantity])
       /\ IF shouldDeductStock
            THEN LET product == products[ingredientProductId]
                     newStock == deductedStock(product.stock, quantity)
                 IN  /\ products' = updateProduct(products, ingredientProductId, newStock)
                     /\ stockLogs' =
                          Append(stockLogs,
                                 [productId |-> ingredientProductId,
                                  previousStock |-> product.stock,
                                  newStock |-> newStock,
                                  change |-> -quantity,
                                  reason |-> [kind |-> "Ingredient used in order",
                                              ref |-> OrderUuid(orderId)]])
            ELSE UNCHANGED <<products, stockLogs>>
       /\ last' = response("ingredient", Null, 200, "", <<>>, NoEvents)
       /\ UNCHANGED <<orders, orderItems, nextOrderId, now,
                        orderClients, received, inflight,
                        heartbeats, cart, stockAlertProduct>>

\* the switch with case "arrived" writing the column of case "dispatched"
statusUpdates_wrongColumn(status, t) ==
  CASE status = "accepted"   -> [status |-> status, acceptedAt |-> t]
    [] status = "preparing"  -> [status |-> status, preparingAt |-> t]
    [] status = "ready"      -> [status |-> status, readyAt |-> t]
    [] status = "dispatched" -> [status |-> status, dispatchedAt |-> t]
    [] status = "arrived"    -> [status |-> status, dispatchedAt |-> t]
    [] status = "delivered"  -> [status |-> status, deliveredAt |-> t]
    [] OTHER                 -> [status |-> status]

\* the updates the switch of PATCH /api/orders/:id/status builds
statusUpdates(status, t) ==
  CASE status = "accepted"   -> [status |-> status, acceptedAt |-> t]
    [] status = "preparing"  -> [status |-> status, preparingAt |-> t]
    [] status = "ready"      -> [status |-> status, readyAt |-> t]
    [] status = "dispatched" -> [status |-> status, dispatchedAt |-> t]
    [] status = "arrived"    -> [status |-> status, arrivedAt |-> t]
    [] status = "delivered"  -> [status |-> status, deliveredAt |-> t]
    [] OTHER                 -> [status |-> status]

\* case "delivered" without its break, falling into case "cancelled"
restoresStock_fallThrough(status) == status \in {"delivered", "cancelled"}

\* the case of the switch that restores stock
restoresStock(status) == status = "cancelled"

\* PATCH /api/orders/:id/status
UpdateStatus(id, status) ==
  IF id \notin DOMAIN orders
    THEN /\ last' = response("status", id, 404, "", <<>>, NoEvents)
         /\ UNCHANGED <<orders, orderItems, preparationIngredients, products,
                        stockLogs, nextOrderId, now,
                        orderClients, received, inflight,
                        heartbeats, cart, stockAlertProduct>>
  ELSE LET order == orders[id]
           transitionResult ==
             isValidStatusTransition(order.status, status, order.orderType)
       IN  IF ~transitionResult.valid
             THEN /\ last' = response("status", id, 400, order.status,
                                      transitionResult.transitions, NoEvents)
                  /\ UNCHANGED <<orders, orderItems, preparationIngredients,
                                 products, stockLogs, nextOrderId, now,
                        orderClients, received, inflight,
                        heartbeats, cart, stockAlertProduct>>
             ELSE LET items == getOrderItems(orderItems, id)
                      stock == IF restoresStock(status)
                                 THEN restoreItems(items, products, stockLogs, id)
                                 ELSE [products |-> products, stockLogs |-> stockLogs]
                  IN  /\ Len(stock.stockLogs) <= MaxLogs
                      /\ products' = stock.products
                      /\ stockLogs' = stock.stockLogs
                      /\ orders' = [orders EXCEPT
                                      ![id] = updateOrder(order, statusUpdates(status, now))]
                      /\ publish(response("status", id, 200, order.status,
                                   transitionResult.transitions,
                                   <<orderEvent("order_status_changed", id, status,
                                                order.status, Null)>>))
                      /\ UNCHANGED <<orderItems, preparationIngredients,
                                     nextOrderId, now, inflight,
                        heartbeats, cart, stockAlertProduct>>

\* the guards of PATCH /api/orders/:id/assign without the one on the type
assignError_noTypeGuard(order) ==
  IF order.status # "ready" THEN "not ready" ELSE "none"

\* the guards of PATCH /api/orders/:id/assign, in the order of the code
assignError(order) ==
  IF order.status # "ready" THEN "not ready"
  ELSE IF order.orderType # "delivery" THEN "not delivery"
  ELSE "none"

\* PATCH /api/orders/:id/assign
AssignMotoboy(id, motoboyId) ==
  IF id \notin DOMAIN orders
    THEN /\ last' = response("assign", id, 404, "", <<>>, NoEvents)
         /\ UNCHANGED <<orders, orderItems, preparationIngredients, products,
                        stockLogs, nextOrderId, now,
                        orderClients, received, inflight,
                        heartbeats, cart, stockAlertProduct>>
  ELSE LET order == orders[id]
       IN  IF assignError(order) # "none"
             THEN /\ last' = response("assign", id, 400, order.status,
                                      <<>>, NoEvents)
                  /\ UNCHANGED <<orders, orderItems, preparationIngredients,
                                 products, stockLogs, nextOrderId, now,
                        orderClients, received, inflight,
                        heartbeats, cart, stockAlertProduct>>
             ELSE /\ orders' = [orders EXCEPT
                                  ![id] = updateOrder(order,
                                            [motoboyId |-> motoboyId,
                                             status |-> "dispatched",
                                             dispatchedAt |-> now])]
                  /\ publish(response("assign", id, 200, order.status, <<>>,
                               <<orderEvent("order_assigned", id, "dispatched",
                                            "", motoboyId)>>))
                  /\ UNCHANGED <<orderItems, preparationIngredients, products,
                                 stockLogs, nextOrderId, now, inflight,
                        heartbeats, cart, stockAlertProduct>>

StatusRequest ==
  \E id \in OrderIds, status \in RequestStatuses : UpdateStatus(id, status)

AssignRequest ==
  \E id \in OrderIds, motoboyId \in MotoboyIds : AssignMotoboy(id, motoboyId)

IngredientRequest ==
  \E orderId \in OrderIds, itemId \in 1..MaxItemRows,
     ingredientProductId \in IngredientProductIds, quantity \in 0..MaxQty,
     shouldDeductStock \in BOOLEAN :
    AddIngredient(orderId, itemId, ingredientProductId, quantity, shouldDeductStock)

(***************************************************************************)
(* Spec: the orders the two clients place, with their items, and the       *)
(* requests on them.                                                       *)
(***************************************************************************)
Next ==
  \/ CheckoutOrder
  \/ PdvOrder
  \/ StatusRequest
  \/ AssignRequest

Spec == Init /\ [][Next]_vars

(***************************************************************************)
(* SpecFlow: orders of any type posted in any status, without items, and   *)
(* the status and assignment requests on them.                             *)
(***************************************************************************)
NextFlow ==
  \/ PostOrder
  \/ StatusRequest
  \/ AssignRequest

\* every product at its largest stock
InitFlow == Init /\ \A p \in ProductIds : products[p].stock = MaxStock

SpecFlow == InitFlow /\ [][NextFlow]_vars

(***************************************************************************)
(* SpecLedger: the requests that move stock: the orders the two clients    *)
(* place, their cancellation, and the ingredients the kitchen consumes.    *)
(***************************************************************************)
CancelRequest == \E id \in OrderIds : UpdateStatus(id, "cancelled")

NextLedger ==
  \/ CheckoutOrder
  \/ PdvOrder
  \/ CancelRequest
  \/ IngredientRequest

SpecLedger == Init /\ [][NextLedger]_vars

TypeOK ==
  /\ DOMAIN orders \subseteq OrderIds
  /\ \A id \in DOMAIN orders :
        /\ orders[id].orderType \in OrderTypes
        /\ orders[id].status \in Statuses
  /\ Len(orderItems) <= MaxItemRows
  /\ Len(stockLogs) <= MaxLogs
  /\ now = 1

(***************************************************************************)
(* The SSE endpoint.                                                       *)
(***************************************************************************)
sseMessage(event) == [event |-> event]

\* GET /api/orders/sse: a new response is written the connected message and
\* added to the Set, and its heartbeat interval is started
SseConnect ==
  \E client \in ClientIds :
     /\ received[client] = <<>>
     /\ \A c \in ClientIds : c < client => received[c] # <<>>
     /\ received' = [received EXCEPT ![client] = <<sseMessage("connected")>>]
     /\ orderClients' = Append(orderClients, client)
     /\ heartbeats' = heartbeats \cup {client}
     /\ last' = response("sse", client, 200, "", <<>>, NoEvents)
     /\ UNCHANGED <<orders, orderItems, preparationIngredients, products,
                    stockLogs, nextOrderId, now, inflight,
                    cart, stockAlertProduct>>

\* req.on('close'): the client went away; the handler is registered on
\* every request, so it runs for a response the broadcast has deleted too
SseClose ==
  \E client \in heartbeats :
     /\ heartbeats' = heartbeats \ {client}
     /\ orderClients' = SelectSeq(orderClients, LAMBDA c : c # client)
     /\ last' = response("close", client, Null, "", <<>>, NoEvents)
     /\ UNCHANGED <<orders, orderItems, preparationIngredients, products,
                    stockLogs, nextOrderId, now, received, inflight,
                    cart, stockAlertProduct>>

\* the callback of setInterval: a heartbeat is written to the response;
\* when the write throws the interval is cleared and the response deleted
SseHeartbeat ==
  \E client \in heartbeats, throws \in BOOLEAN :
     /\ Len(received[client]) < MaxReceived
     /\ IF throws
          THEN /\ heartbeats' = heartbeats \ {client}
               /\ orderClients' = SelectSeq(orderClients, LAMBDA c : c # client)
               /\ UNCHANGED received
          ELSE /\ received' = [received EXCEPT
                                 ![client] = Append(@, sseMessage("heartbeat"))]
               /\ UNCHANGED <<heartbeats, orderClients>>
     /\ last' = response("heartbeat", client, Null, "", <<>>, NoEvents)
     /\ UNCHANGED <<orders, orderItems, preparationIngredients, products,
                    stockLogs, nextOrderId, now, inflight,
                    cart, stockAlertProduct>>

(***************************************************************************)
(* PATCH /api/orders/:id/delivery-fee.  Amounts are in cents; the          *)
(* deliveryFee of a request body is Null when it is undefined or does not  *)
(* parse as a number.                                                      *)
(***************************************************************************)
Fees == {0, 300, 700}

FeeInputs == Fees \cup {Null}

\* order.originalDeliveryFee || order.deliveryFee with the deliveryFee
\* always taken
originalFee_overwrite(order) == order.deliveryFee

\* order.originalDeliveryFee || order.deliveryFee: a decimal column is a
\* string, falsy only when it is null
originalFee(order) ==
  IF order.originalDeliveryFee # Null
    THEN order.originalDeliveryFee
    ELSE order.deliveryFee

\* parseFloat(order.subtotal) - parseFloat(order.discount || "0") + parseFloat(newFee)
newTotal(order, newFee) ==
  order.subtotal - (IF order.discount # Null THEN order.discount ELSE 0) + newFee

feeEvent(orderId, original, newFee, total) ==
  [event |-> "order_fee_updated", orderId |-> orderId,
   originalFee |-> original, newFee |-> newFee, newTotal |-> total]

UpdateDeliveryFee(id, deliveryFee) ==
  IF deliveryFee = Null
    THEN /\ last' = response("fee", id, 400, "", <<>>, NoEvents)
         /\ UNCHANGED <<orders, orderItems, preparationIngredients, products,
                        stockLogs, nextOrderId, now,
                        orderClients, received, inflight,
                        heartbeats, cart, stockAlertProduct>>
  ELSE IF id \notin DOMAIN orders
    THEN /\ last' = response("fee", id, 404, "", <<>>, NoEvents)
         /\ UNCHANGED <<orders, orderItems, preparationIngredients, products,
                        stockLogs, nextOrderId, now,
                        orderClients, received, inflight,
                        heartbeats, cart, stockAlertProduct>>
  ELSE LET order == orders[id]
           original == originalFee(order)
           newFee == deliveryFee
           total == newTotal(order, newFee)
       IN  /\ orders' = [orders EXCEPT
                           ![id] = updateOrder(order,
                                     [deliveryFee |-> newFee,
                                      originalDeliveryFee |-> original,
                                      deliveryFeeAdjusted |-> TRUE,
                                      deliveryFeeAdjustedAt |-> now,
                                      total |-> total])]
           /\ publish(response("fee", id, 200, "", <<>>,
                               <<feeEvent(id, original, newFee, total)>>))
           /\ UNCHANGED <<orderItems, preparationIngredients, products,
                          stockLogs, nextOrderId, now, inflight,
                        heartbeats, cart, stockAlertProduct>>

FeeRequest ==
  \E id \in OrderIds, deliveryFee \in FeeInputs : UpdateDeliveryFee(id, deliveryFee)

(***************************************************************************)
(* SpecFee: orders posted in any status and the adjustments of their       *)
(* delivery fee.                                                           *)
(***************************************************************************)
NextFee ==
  \/ PostOrder
  \/ FeeRequest

SpecFee == InitFlow /\ [][NextFee]_vars

(***************************************************************************)
(* PATCH /api/orders/:id/status when storage.updateOrder rejects: the      *)
(* handler has run its switch, the await throws, and neither the broadcast *)
(* nor res.json is reached.                                                *)
(***************************************************************************)
UpdateStatusPersistFails(id, status) ==
  /\ id \in DOMAIN orders
  /\ LET order == orders[id]
         transitionResult ==
           isValidStatusTransition(order.status, status, order.orderType)
         items == getOrderItems(orderItems, id)
         stock == IF restoresStock(status)
                    THEN restoreItems(items, products, stockLogs, id)
                    ELSE [products |-> products, stockLogs |-> stockLogs]
     IN  /\ transitionResult.valid
         /\ Len(stock.stockLogs) <= MaxLogs
         /\ products' = stock.products
         /\ stockLogs' = stock.stockLogs
         /\ last' = response("status", id, Null, order.status,
                             transitionResult.transitions, NoEvents)
  /\ UNCHANGED <<orders, orderItems, preparationIngredients, nextOrderId, now,
                 orderClients, received, inflight,
                        heartbeats, cart, stockAlertProduct>>

StatusPersistFails ==
  \E id \in OrderIds, status \in Statuses : UpdateStatusPersistFails(id, status)

(***************************************************************************)
(* SpecFailure: the orders the two clients place and the status requests   *)
(* on them, whose write of the order may fail.                             *)
(***************************************************************************)
NextFailure ==
  \/ CheckoutOrder
  \/ PdvOrder
  \/ StatusRequest
  \/ StatusPersistFails

SpecFailure == Init /\ [][NextFailure]_vars

(***************************************************************************)
(* Handlers in flight.  A handler runs until its next await; the storage   *)
(* call it awaits and the code up to the next await are one step, and the  *)
(* steps of the handlers in flight interleave.  pc names the storage call  *)
(* a handler is waiting for.  storage.getCategories reads the catalog,     *)
(* which no handler writes: it shares the step of the call before it.      *)
(***************************************************************************)
handler(op, id, status, pc, todo) ==
  [op |-> op, id |-> id, status |-> status, pc |-> pc, todo |-> todo,
   previousStatus |-> "", previousStock |-> Null, newStock |-> Null]

\* the status requests in flight are cancellations
RaceStatuses == {"cancelled"}

\* the bodies of the orders in flight: one line of a tracked or of a
\* prepared product
RaceItemLists ==
  {<<[productId |-> p, quantity |-> q]>> : p \in IngredientProductIds, q \in Quantities}

removeAt(seq, i) == SubSeq(seq, 1, i - 1) \o SubSeq(seq, i + 1, Len(seq))

\* POST /api/orders arrives: the handler passes the check of the user and
\* awaits storage.createOrder
ReceiveCreate ==
  \E items \in RaceItemLists :
     /\ Len(inflight) < MaxInflight
     /\ Len(orderItems)
          + Len(SelectSeq(inflight, LAMBDA h : h.op = "create")) < MaxItemRows
     /\ nextOrderId
          + Len(SelectSeq(inflight, LAMBDA h : h.op = "create" /\ h.pc = "createOrder"))
          <= MaxRaceOrders
     /\ inflight' = Append(inflight, handler("create", Null, "pending", "createOrder", items))
     /\ UNCHANGED <<orders, orderItems, preparationIngredients, products,
                    stockLogs, nextOrderId, now, last, orderClients, received,
                    heartbeats, cart, stockAlertProduct>>

\* PATCH /api/orders/:id/status arrives: the handler awaits storage.getOrder
ReceiveStatus ==
  \E id \in OrderIds, status \in RaceStatuses :
     /\ Len(inflight) < MaxInflight
     /\ inflight' = Append(inflight, handler("status", id, status, "getOrder", <<>>))
     /\ UNCHANGED <<orders, orderItems, preparationIngredients, products,
                    stockLogs, nextOrderId, now, last, orderClients, received,
                    heartbeats, cart, stockAlertProduct>>

\* the handler goes on to its next await
continue(i, h) ==
  /\ inflight' = [inflight EXCEPT ![i] = h]
  /\ UNCHANGED <<last, orderClients, received,
                 heartbeats, cart, stockAlertProduct>>

\* the handler broadcasts, answers and ends
finish(i, resp) ==
  /\ inflight' = removeAt(inflight, i)
  /\ publish(resp)
  /\ UNCHANGED <<heartbeats, cart, stockAlertProduct>>

\* the handler answers without a broadcast and ends
reject(i, resp) ==
  /\ inflight' = removeAt(inflight, i)
  /\ last' = resp
  /\ UNCHANGED <<orderClients, received,
                 heartbeats, cart, stockAlertProduct>>

created(h) ==
  response("create", h.id, 201, "", <<>>,
           <<orderEvent("order_created", h.id, h.status, "", Null)>>)

\* a step of the handler of POST /api/orders
CreateStep(i) ==
  LET h == inflight[i]
      item == Head(h.todo)
      rest == Tail(h.todo)
      afterItem == IF rest = <<>>
                     THEN finish(i, created(h))
                     ELSE continue(i, [h EXCEPT !.pc = "createOrderItem", !.todo = rest])
  IN  /\ h.op = "create"
      /\ CASE h.pc = "createOrder" ->
                LET id == nextOrderId
                    h1 == [h EXCEPT !.id = id]
                IN  /\ orders' = (id :> newOrder("delivery", h.status)) @@ orders
                    /\ nextOrderId' = id + 1
                    /\ IF h.todo = <<>>
                         THEN finish(i, created(h1))
                         ELSE continue(i, [h1 EXCEPT !.pc = "createOrderItem"])
                    /\ UNCHANGED <<orderItems, preparationIngredients, products,
                                   stockLogs, now>>
           [] h.pc = "createOrderItem" ->
                /\ orderItems' = Append(orderItems,
                                        [orderId |-> h.id, productId |-> item.productId,
                                         quantity |-> item.quantity])
                /\ continue(i, [h EXCEPT !.pc = "getProduct"])
                /\ UNCHANGED <<orders, preparationIngredients, products,
                               stockLogs, nextOrderId, now>>
           [] h.pc = "getProduct" ->
                LET product == products[item.productId]
                IN  /\ IF ~isPreparedProduct(product)
                         THEN continue(i, [h EXCEPT
                                !.pc = "updateProduct",
                                !.previousStock = product.stock,
                                !.newStock = deductedStock(product.stock, item.quantity)])
                         ELSE afterItem
                    /\ UNCHANGED <<orders, orderItems, preparationIngredients,
                                   products, stockLogs, nextOrderId, now>>
           [] h.pc = "updateProduct" ->
                /\ products' = updateProduct(products, item.productId, h.newStock)
                /\ continue(i, [h EXCEPT !.pc = "createStockLog"])
                /\ UNCHANGED <<orders, orderItems, preparationIngredients,
                               stockLogs, nextOrderId, now>>
           [] h.pc = "createStockLog" ->
                /\ Len(stockLogs) < MaxLogs
                /\ stockLogs' = Append(stockLogs,
                                  [productId |-> item.productId,
                                   previousStock |-> h.previousStock,
                                   newStock |-> h.newStock,
                                   change |-> -item.quantity,
                                   reason |-> [kind |-> "Pedido",
                                               ref |-> slice8(OrderUuid(h.id))]])
                /\ afterItem
                /\ UNCHANGED <<orders, orderItems, preparationIngredients,
                               products, nextOrderId, now>>

\* a step of the handler of PATCH /api/orders/:id/status
StatusStep(i) ==
  LET h == inflight[i]
      item == Head(h.todo)
      rest == Tail(h.todo)
      afterItem == continue(i, [h EXCEPT
                     !.pc = IF rest = <<>> THEN "updateOrder" ELSE "getProduct",
                     !.todo = rest])
  IN  /\ h.op = "status"
      /\ CASE h.pc = "getOrder" ->
                /\ IF h.id \notin DOMAIN orders
                     THEN reject(i, response("status", h.id, 404, "", <<>>, NoEvents))
                     ELSE LET order == orders[h.id]
                              transitionResult ==
                                isValidStatusTransition(order.status, h.status,
                                                        order.orderType)
                          IN  IF ~transitionResult.valid
                                THEN reject(i, response("status", h.id, 400, order.status,
                                                 transitionResult.transitions, NoEvents))
                                ELSE continue(i, [h EXCEPT
                                       !.previousStatus = order.status,
                                       !.pc = IF restoresStock(h.status)
                                                THEN "getOrderItems"
                                                ELSE "updateOrder"])
                /\ UNCHANGED <<orders, orderItems, preparationIngredients,
                               products, stockLogs, nextOrderId, now>>
           [] h.pc = "getOrderItems" ->
                LET items == getOrderItems(orderItems, h.id)
                IN  /\ continue(i, [h EXCEPT
                          !.pc = IF items = <<>> THEN "updateOrder" ELSE "getProduct",
                          !.todo = items])
                    /\ UNCHANGED <<orders, orderItems, preparationIngredients,
                                   products, stockLogs, nextOrderId, now>>
           [] h.pc = "getProduct" ->
                LET product == products[item.productId]
                IN  /\ IF ~isPreparedProduct(product)
                         THEN continue(i, [h EXCEPT
                                !.pc = "updateProduct",
                                !.previousStock = product.stock,
                                !.newStock = restoredStock(product.stock, item.quantity)])
                         ELSE afterItem
                    /\ UNCHANGED <<orders, orderItems, preparationIngredients,
                                   products, stockLogs, nextOrderId, now>>
           [] h.pc = "updateProduct" ->
                /\ products' = updateProduct(products, item.productId, h.newStock)
                /\ continue(i, [h EXCEPT !.pc = "createStockLog"])
                /\ UNCHANGED <<orders, orderItems, preparationIngredients,
                               stockLogs, nextOrderId, now>>
           [] h.pc = "createStockLog" ->
                /\ Len(stockLogs) < MaxLogs
                /\ stockLogs' = Append(stockLogs,
                                  [productId |-> item.productId,
                                   previousStock |-> h.previousStock,
                                   newStock |-> h.newStock,
                                   change |-> item.quantity,
                                   reason |-> [kind |-> "Cancelamento pedido",
                                               ref |-> slice8(OrderUuid(h.id))]])
                /\ afterItem
                /\ UNCHANGED <<orders, orderItems, preparationIngredients,
                               products, nextOrderId, now>>
           [] h.pc = "updateOrder" ->
                /\ orders' = [orders EXCEPT
                                ![h.id] = updateOrder(@, statusUpdates(h.status, now))]
                /\ finish(i, response("status", h.id, 200, h.previousStatus,
                               isValidStatusTransition(h.previousStatus, h.status,
                                 orders[h.id].orderType).transitions,
                               <<orderEvent("order_status_changed", h.id, h.status,
                                            h.previousStatus, Null)>>))
                /\ UNCHANGED <<orderItems, preparationIngredients, products,
                               stockLogs, nextOrderId, now>>

HandlerStep ==
  \E i \in 1..Len(inflight) : CreateStep(i) \/ StatusStep(i)

(***************************************************************************)
(* SpecRace: order creations and status requests whose handlers interleave *)
(* at their awaits.                                                        *)
(***************************************************************************)
NextRace ==
  \/ ReceiveCreate
  \/ ReceiveStatus
  \/ HandlerStep

SpecRace == InitFlow /\ [][NextRace]_vars

(***************************************************************************)
(* PATCH /api/products/:id: the catalog edit of the admin.                 *)
(***************************************************************************)
\* the ids a catalog edit names: a product with tracked stock, one with the
\* isPrepared flag and an id that is no product
PatchProductIds == IngredientProductIds \cup {Cardinality(ProductIds) + 1}

PatchProduct(id, stock) ==
  IF id \notin ProductIds
    THEN /\ last' = response("product", id, 404, "", <<>>, NoEvents)
         /\ UNCHANGED <<orders, orderItems, preparationIngredients, products,
                        stockLogs, nextOrderId, now,
                        orderClients, received, inflight,
                        heartbeats, cart, stockAlertProduct>>
    ELSE /\ products' = updateProduct(products, id, stock)
         /\ last' = response("product", id, 200, "", <<>>, NoEvents)
         /\ UNCHANGED <<orders, orderItems, preparationIngredients,
                        stockLogs, nextOrderId, now,
                        orderClients, received, inflight,
                        heartbeats, cart, stockAlertProduct>>

ProductRequest ==
  \E id \in PatchProductIds, stock \in 0..MaxStock : PatchProduct(id, stock)

(***************************************************************************)
(* SpecCatalog: the orders of Checkout, their cancellation and the catalog *)
(* edits.                                                                  *)
(***************************************************************************)
NextCatalog ==
  \/ CheckoutOrder
  \/ CancelRequest
  \/ ProductRequest

SpecCatalog == Init /\ [][NextCatalog]_vars

(***************************************************************************)
(* DELETE /api/orders/:id.                                                 *)
(***************************************************************************)
\* storage.deleteOrder(id) on the order_items table: the rows of the order
\* go with it (order_items.order_id references orders.id)
deleteOrderItems(rows, orderId) ==
  SelectSeq(rows, LAMBDA r : r.orderId # orderId)

\* the preparation_ingredients rows of the deleted items go with them
\* (onDelete: cascade); the others follow their item to its new position
deleteIngredients(ingredients, rows, orderId) ==
  LET kept == SelectSeq(ingredients,
                        LAMBDA g : rows[g.orderItemId].orderId # orderId)
      position(k) == Cardinality({j \in 1..k : rows[j].orderId # orderId})
  IN  [n \in 1..Len(kept) |->
         [kept[n] EXCEPT !.orderItemId = position(kept[n].orderItemId)]]

\* storage.deleteOrder(id) on the orders table
deleteOrder(rows, orderId) ==
  [id \in DOMAIN rows \ {orderId} |-> rows[id]]

deletedEvent(orderId) == [event |-> "order_deleted", orderId |-> orderId]

\* the handler putting back the stock of the lines of the order it deletes
DeleteOrder_reversing(id) ==
  /\ id \in DOMAIN orders
  /\ LET stock == restoreItems(getOrderItems(orderItems, id), products, stockLogs, id)
     IN  /\ Len(stock.stockLogs) <= MaxLogs
         /\ products' = stock.products
         /\ stockLogs' = stock.stockLogs
  /\ orders' = deleteOrder(orders, id)
  /\ orderItems' = deleteOrderItems(orderItems, id)
  /\ preparationIngredients' = deleteIngredients(preparationIngredients, orderItems, id)
  /\ publish(response("delete", id, 204, "", <<>>, <<deletedEvent(id)>>))
  /\ UNCHANGED <<nextOrderId, now, inflight,
                        heartbeats, cart, stockAlertProduct>>

DeleteOrder(id) ==
  IF id \notin DOMAIN orders
    THEN /\ last' = response("delete", id, 404, "", <<>>, NoEvents)
         /\ UNCHANGED <<orders, orderItems, preparationIngredients, products,
                        stockLogs, nextOrderId, now,
                        orderClients, received, inflight,
                        heartbeats, cart, stockAlertProduct>>
    ELSE /\ orders' = deleteOrder(orders, id)
         /\ orderItems' = deleteOrderItems(orderItems, id)
         /\ preparationIngredients' =
              deleteIngredients(preparationIngredients, orderItems, id)
         /\ publish(response("delete", id, 204, "", <<>>, <<deletedEvent(id)>>))
         /\ UNCHANGED <<products, stockLogs, nextOrderId, now, inflight,
                        heartbeats, cart, stockAlertProduct>>

DeleteRequest == \E id \in OrderIds : DeleteOrder(id)

(***************************************************************************)
(* SpecAdmin: orders posted in any status, the orders of Checkout with     *)
(* their items, and the removal of orders.                                 *)
(***************************************************************************)
NextAdmin ==
  \/ PostOrder
  \/ CheckoutOrder
  \/ DeleteRequest

SpecAdmin == Init /\ [][NextAdmin]_vars

(***************************************************************************)
(* SpecBroadcast: SSE connections that open and close, and the creations   *)
(* and removals of orders whose events are broadcast to them.              *)
(***************************************************************************)
NextBroadcast ==
  \/ SseConnect
  \/ SseClose
  \/ PostOrder
  \/ DeleteRequest

SpecBroadcast == InitFlow /\ [][NextBroadcast]_vars

(***************************************************************************)
(* SpecLifecycle: orders that enter the flow before the hand-over, in      *)
(* pending (Checkout), accepted or ready (PDV), and the status and         *)
(* assignment requests on them.                                            *)
(***************************************************************************)
CreationStatuses == {"pending", "accepted", "ready"}

NewOrder ==
  \E orderType \in OrderTypes, status \in CreationStatuses, hasUserId \in BOOLEAN :
     CreateOrder(orderType, status, hasUserId, <<>>)

NextLifecycle ==
  \/ NewOrder
  \/ StatusRequest
  \/ AssignRequest

SpecLifecycle == InitFlow /\ [][NextLifecycle]_vars

(***************************************************************************)
(* The PDV sale with a manual discount.  Amounts are in cents.             *)
(***************************************************************************)
\* Number(item.product.salePrice)
salePrice(productId) == 500

\* cart.reduce((sum, item) => sum + Number(item.product.salePrice) * item.quantity, 0)
RECURSIVE cartSubtotal(_)
cartSubtotal(items) ==
  IF items = <<>> THEN 0
  ELSE salePrice(Head(items).productId) * Head(items).quantity
         + cartSubtotal(Tail(items))

\* parseFloat(manualDiscount) || 0: what the cashier typed in the discount
\* field: nothing, less than the sale, more than the sale
ManualDiscounts == {0, 200, 1500}

\* Math.max(0, subtotal - discountValue)
pdvTotal(subtotal, discountValue) == Max(0, subtotal - discountValue)

\* the monetary fields of orderData in handleConfirmPayment
pdvMoney(items, discountValue) ==
  LET subtotal == cartSubtotal(items)
  IN  [subtotal |-> subtotal, deliveryFee |-> 0, discount |-> discountValue,
       total |-> pdvTotal(subtotal, discountValue)]

\* handleConfirmPayment: the PDV posts the counter order of its cart
PdvSale ==
  \E items \in ItemLists(MaxItemRows - Len(orderItems)) \ {<<>>},
     discountValue \in ManualDiscounts :
     CreateOrderOf("counter", initialStatus(items, products), TRUE, items,
                   pdvMoney(items, discountValue))

(***************************************************************************)
(* SpecMoney: the orders of Checkout, the sales of the PDV and the         *)
(* adjustments of their delivery fee.                                      *)
(***************************************************************************)
NextMoney ==
  \/ CheckoutOrder
  \/ PdvSale
  \/ FeeRequest

SpecMoney == InitFlow /\ [][NextMoney]_vars

(***************************************************************************)
(* The cart of the PDV: cart is the array of lines {product, quantity} in  *)
(* the order they were added, each line holding the product as the list of *)
(* products showed it; stockAlertProduct is the id of the product of the   *)
(* stock alert dialog, Null when the dialog is closed.                     *)
(***************************************************************************)
\* the products the cashier clicks
CartProductIds == {1, 2, 4}

\* a row of the list of products
productRow(p) ==
  [id |-> p, categoryId |-> products[p].categoryId,
   isPrepared |-> products[p].isPrepared, stock |-> products[p].stock]

\* cart.find(item => item.product.id === productId)?.quantity ?? 0
lineQuantity(lines, productId) ==
  IF \E i \in 1..Len(lines) : lines[i].product.id = productId
    THEN LET i == CHOOSE i \in 1..Len(lines) : lines[i].product.id = productId
         IN  lines[i].quantity
    ELSE 0

\* the stock test of addToCart that only looks for an empty stock
noStockLeft_emptyOnly(product, currentQty) == product.stock <= 0

\* product.stock <= 0 || currentQty >= product.stock
noStockLeft(product, currentQty) ==
  product.stock <= 0 \/ currentQty >= product.stock

\* addToCart(product)
AddToCart(p) ==
  LET product == productRow(p)
      currentQty == lineQuantity(cart, p)
      isPrepared == isProductPrepared(product)
  IN  IF ~isPrepared /\ noStockLeft(product, currentQty)
        THEN /\ stockAlertProduct' = product.id
             /\ UNCHANGED cart
        ELSE /\ currentQty < MaxCartQty
             /\ cart' = IF \E i \in 1..Len(cart) : cart[i].product.id = p
                          THEN [i \in 1..Len(cart) |->
                                  IF cart[i].product.id = p
                                    THEN [cart[i] EXCEPT !.quantity = @ + 1]
                                    ELSE cart[i]]
                          ELSE Append(cart, [product |-> product, quantity |-> 1])
             /\ UNCHANGED stockAlertProduct

\* updateQuantity(productId, delta)
UpdateQuantity(p, delta) ==
  LET found == \E i \in 1..Len(cart) : cart[i].product.id = p
      item == cart[CHOOSE i \in 1..Len(cart) : cart[i].product.id = p]
      isPrepared == IF found THEN isProductPrepared(item.product) ELSE FALSE
  IN  IF found /\ delta > 0 /\ ~isPrepared /\ item.quantity >= item.product.stock
        THEN /\ stockAlertProduct' = item.product.id
             /\ UNCHANGED cart
        ELSE /\ lineQuantity(cart, p) + delta <= MaxCartQty
             /\ cart' = SelectSeq(
                          [i \in 1..Len(cart) |->
                             IF cart[i].product.id = p
                               THEN LET newQty == cart[i].quantity + delta
                                    IN  IF newQty > 0
                                          THEN [cart[i] EXCEPT !.quantity = newQty]
                                          ELSE cart[i]
                               ELSE cart[i]],
                          LAMBDA line : line.quantity > 0)
             /\ UNCHANGED stockAlertProduct

\* removeFromCart(productId)
RemoveFromCart(p) ==
  /\ cart' = SelectSeq(cart, LAMBDA line : line.product.id # p)
  /\ UNCHANGED stockAlertProduct

\* the stock alert dialog is closed
CloseStockAlert ==
  /\ stockAlertProduct # Null
  /\ stockAlertProduct' = Null
  /\ UNCHANGED cart

serverUnchanged ==
  UNCHANGED <<orders, orderItems, preparationIngredients, products, stockLogs,
              nextOrderId, now, last, orderClients, received, inflight,
              heartbeats>>

AddClick == \E p \in CartProductIds : AddToCart(p) /\ serverUnchanged

QuantityClick ==
  \E p \in CartProductIds, delta \in {-1, 1} :
     UpdateQuantity(p, delta) /\ serverUnchanged

RemoveClick == \E p \in CartProductIds : RemoveFromCart(p) /\ serverUnchanged

AlertClose == CloseStockAlert /\ serverUnchanged

(***************************************************************************)
(* SpecCart: the clicks of the cashier on the products and on the lines of *)
(* the cart, over a catalog of any stock.                                  *)
(***************************************************************************)
NextCart ==
  \/ AddClick
  \/ QuantityClick
  \/ RemoveClick
  \/ AlertClose

SpecCart == Init /\ [][NextCart]_vars

(***************************************************************************)
(* SpecIntake: bodies of POST /api/orders and of PATCH /status that carry  *)
(* any status value, among them one that is no order status.               *)
(***************************************************************************)
PostAnyStatus ==
  \E orderType \in OrderTypes, status \in RequestStatuses, hasUserId \in BOOLEAN :
     CreateOrder(orderType, status, hasUserId, <<>>)

NextIntake ==
  \/ PostAnyStatus
  \/ StatusRequest

SpecIntake == InitFlow /\ [][NextIntake]_vars

(***************************************************************************)
(* SpecHeartbeat: SSE connections that open and close, their heartbeats,   *)
(* and the creations of orders whose events are broadcast to them.         *)
(***************************************************************************)
NextHeartbeat ==
  \/ SseConnect
  \/ SseClose
  \/ SseHeartbeat
  \/ PostOrder

SpecHeartbeat == InitFlow /\ [][NextHeartbeat]_vars


(***************************************************************************)
(* The transition table as the specification states it.                    *)
(***************************************************************************)
allowedNext(orderType, status) ==
  CASE status = "pending"    -> {"accepted", "cancelled"}
    [] status = "accepted"   -> {"preparing", "cancelled"}
    [] status = "preparing"  -> {"ready", "cancelled"}
    [] status = "ready"      -> IF orderType = "counter"
                                  THEN {"delivered", "cancelled"}
                                  ELSE {"dispatched", "cancelled"}
    [] status = "dispatched" -> IF orderType = "counter"
                                  THEN {}
                                  ELSE {"arrived", "delivered", "cancelled"}
    [] status = "arrived"    -> IF orderType = "counter"
                                  THEN {}
                                  ELSE {"delivered", "cancelled"}
    [] OTHER                 -> {}

\* the request left the rows of every table as they were
tablesUnchanged ==
  UNCHANGED <<orders, orderItems, preparationIngredients, products, stockLogs>>

C2_InvalidLeavesUnmodified ==
  \A id \in DOMAIN orders : \A status \in RequestStatuses :
     status \notin allowedNext(orders[id].orderType, orders[id].status) =>
        /\ ENABLED UpdateStatus(id, status)
        /\ ~ ENABLED (/\ UpdateStatus(id, status)
                      /\ ~ (/\ last'.code = 400
                            /\ last'.events = NoEvents
                            /\ tablesUnchanged))

\* a request was rejected on an order whose creation deducted stock
C2_Witness ==
  /\ last.op = "status" /\ last.code = 400
  /\ last.id \in DOMAIN orders
  /\ stockLogs # <<>>
  /\ getOrderItems(orderItems, last.id) # <<>>

exemptNames ==
  { <<"d","o","s","e","s">>,
    <<"c","a","i","p","i","r","i","n","h","a","s">>,
    <<"b","a","t","i","d","a","s">>,
    <<"d","r","i","n","k","s"," ","e","s","p","e","c","i","a","i","s">>,
    <<"c","o","p","a","o">>,
    <<"d","r","i","n","k","s">>,
    <<"c","o","p","o","s">>,
    <<"c","a","i","p","i"," ","i","c","e","s">> }

stockExempt(p) ==
  \/ products[p].isPrepared
  \/ \E name \in exemptNames :
        LET categoryName == toLowerCase(CategoryName(products[p].categoryId))
        IN  includes(categoryName, name) \/ includes(name, categoryName)

\* the quantity the lines of an order hold of a product
RECURSIVE quantityOf(_, _)
quantityOf(lines, p) ==
  IF lines = <<>> THEN 0
  ELSE (IF Head(lines).productId = p THEN Head(lines).quantity ELSE 0)
       + quantityOf(Tail(lines), p)

\* the sum of the changes the log entries record for a product
RECURSIVE changeOf(_, _)
changeOf(entries, p) ==
  IF entries = <<>> THEN 0
  ELSE (IF Head(entries).productId = p THEN Head(entries).change ELSE 0)
       + changeOf(Tail(entries), p)

linesOf(id) == SelectSeq(orderItems, LAMBDA r : r.orderId = id)

\* the step is a status request on order id answered 200 that left the
\* order in the given status
statusChangedTo(id, status) ==
  /\ last'.op = "status" /\ last'.code = 200 /\ last'.id = id
  /\ id \in DOMAIN orders'
  /\ orders'[id].status = status

\* the entries the step appended to the stock log
appended == SubSeq(stockLogs', Len(stockLogs) + 1, Len(stockLogs'))

(***************************************************************************)
(* C4: a successful cancellation raises the stock of every non-exempt      *)
(* product by the total quantity the order holds of it and appends, for    *)
(* each such product, log entries with a positive change equal to the      *)
(* quantity of a line, whose changes add up to that total and whose reason *)
(* names the order; a cancel request on a cancelled order is answered 400  *)
(* and changes neither stock nor log.                                      *)
(***************************************************************************)
C4_CancelRestoresStock ==
  [][\A id \in DOMAIN orders :
       /\ statusChangedTo(id, "cancelled") =>
            /\ Len(stockLogs') >= Len(stockLogs)
            /\ SubSeq(stockLogs', 1, Len(stockLogs)) = stockLogs
            /\ \A p \in ProductIds :
                 ~stockExempt(p) =>
                   /\ products'[p].stock = products[p].stock + quantityOf(linesOf(id), p)
                   /\ changeOf(appended, p) = quantityOf(linesOf(id), p)
                   /\ quantityOf(linesOf(id), p) > 0 =>
                        \E k \in 1..Len(appended) : appended[k].productId = p
            /\ \A k \in 1..Len(appended) :
                 /\ appended[k].change > 0
                 /\ appended[k].newStock = appended[k].previousStock + appended[k].change
                 /\ appended[k].reason.ref = slice8(OrderUuid(id))
                 /\ \E i \in 1..Len(linesOf(id)) :
                      /\ linesOf(id)[i].productId = appended[k].productId
                      /\ linesOf(id)[i].quantity = appended[k].change
       /\ (orders[id].status = "cancelled" /\ last'.op = "status" /\ last'.id = id) =>
            /\ last'.code = 400
            /\ products' = products
            /\ stockLogs' = stockLogs
    ]_vars

\* an order with two lines of the tracked product 1 was cancelled
C4_Witness ==
  /\ last.op = "status" /\ last.code = 200
  /\ last.id \in DOMAIN orders
  /\ orders[last.id].status = "cancelled"
  /\ quantityOf(linesOf(last.id), 1) = 2
  /\ Len(stockLogs) = 4
  /\ stockLogs[4].change = 1

(***************************************************************************)
(* C5: creating an order with one line of N units of a non-exempt product  *)
(* of stock S leaves stock max(0, S-N); cancelling that order, when no     *)
(* other stock operation came in between, leaves max(0, S-N) + N.          *)
(***************************************************************************)
C5_RoundTrip ==
  [][\A id \in OrderIds : \A p \in ProductIds :
       /\ ( /\ last'.op = "create" /\ last'.code = 201 /\ last'.id = id
            /\ Len(SelectSeq(orderItems', LAMBDA r : r.orderId = id)) = 1
            /\ SelectSeq(orderItems', LAMBDA r : r.orderId = id)[1].productId = p
            /\ ~stockExempt(p) ) =>
            LET N == SelectSeq(orderItems', LAMBDA r : r.orderId = id)[1].quantity
                S == products[p].stock
            IN  products'[p].stock = Max(0, S - N)
       /\ ( /\ statusChangedTo(id, "cancelled")
            /\ Len(linesOf(id)) = 1
            /\ linesOf(id)[1].productId = p
            /\ ~stockExempt(p)
            /\ stockLogs # <<>>
            /\ stockLogs[Len(stockLogs)].reason =
                 [kind |-> "Pedido", ref |-> slice8(OrderUuid(id))] ) =>
            LET N == linesOf(id)[1].quantity
                S == stockLogs[Len(stockLogs)].previousStock
            IN  /\ products[p].stock = Max(0, S - N)
                /\ products'[p].stock = Max(0, S - N) + N
    ]_vars

\* an order of one unit of product 1 was created on stock 0 and cancelled:
\* the stock is 1
C5_Witness ==
  /\ last.op = "status" /\ last.code = 200
  /\ last.id \in DOMAIN orders
  /\ orders[last.id].status = "cancelled"
  /\ Len(stockLogs) = 2
  /\ stockLogs[1].productId = 1 /\ stockLogs[1].previousStock = 0
  /\ stockLogs[1].newStock = 0 /\ stockLogs[1].change = -1
  /\ stockLogs[2].productId = 1 /\ stockLogs[2].newStock = 1
  /\ products[1].stock = 1

(***************************************************************************)
(* C6: no stock log entry written by order creation or cancellation is     *)
(* about a stock-exempt product.                                           *)
(***************************************************************************)
C6_ExemptNeverLogged ==
  \A k \in 1..Len(stockLogs) :
     stockLogs[k].reason.kind \in {"Pedido", "Cancelamento pedido"} =>
        ~stockExempt(stockLogs[k].productId)

(***************************************************************************)
(* C7: the stock of every product, and the previousStock and newStock of   *)
(* every log entry, are integers that are not negative.                    *)
(***************************************************************************)
C7_StockNotNegative ==
  /\ \A p \in ProductIds : products[p].stock \in Nat
  /\ \A k \in 1..Len(stockLogs) :
        /\ stockLogs[k].previousStock \in Nat
        /\ stockLogs[k].newStock \in Nat

\* an ingredient was consumed of a product that had less than the quantity
C7_Witness ==
  \E k \in 1..Len(stockLogs) :
     /\ stockLogs[k].reason.kind = "Ingredient used in order"
     /\ stockLogs[k].previousStock + stockLogs[k].change < 0
     /\ stockLogs[k].newStock = 0


\* the timestamp column that matches a status
timestampOf(status) ==
  CASE status = "accepted"   -> "acceptedAt"
    [] status = "preparing"  -> "preparingAt"
    [] status = "ready"      -> "readyAt"
    [] status = "dispatched" -> "dispatchedAt"
    [] status = "arrived"    -> "arrivedAt"
    [] status = "delivered"  -> "deliveredAt"
    [] OTHER                 -> "none"

\* the columns of order id the step changed
changedColumns(id) ==
  {f \in DOMAIN orders[id] : orders'[id][f] # orders[id][f]}

\* the step is a status request on order id answered 200
statusChanged(id) ==
  /\ last'.op = "status" /\ last'.code = 200 /\ last'.id = id
  /\ id \in DOMAIN orders'

C9_OnlyCancelMovesStock ==
  [][\A id \in DOMAIN orders :
       ( \/ (statusChanged(id) /\ orders'[id].status # "cancelled")
         \/ (last'.op = "assign" /\ last'.code = 200 /\ last'.id = id) ) =>
          /\ products' = products
          /\ stockLogs' = stockLogs
    ]_vars

\* an order whose creation deducted stock was delivered after a courier had
\* been assigned to it
C9_Witness ==
  /\ last.op = "status" /\ last.code = 200
  /\ last.id \in DOMAIN orders
  /\ orders[last.id].status = "delivered"
  /\ orders[last.id].motoboyId # Null
  /\ quantityOf(linesOf(last.id), 1) > 0
  /\ stockLogs # <<>>

(***************************************************************************)
(* C10: a courier assignment on an order that is not ready, or that is a   *)
(* counter order, is answered 400, leaves every table as it was and        *)
(* publishes no event.                                                     *)
(***************************************************************************)
C10_AssignRejected ==
  \A id \in DOMAIN orders : \A motoboyId \in MotoboyIds :
     (orders[id].status # "ready" \/ orders[id].orderType = "counter") =>
        /\ ENABLED AssignMotoboy(id, motoboyId)
        /\ ~ ENABLED (/\ AssignMotoboy(id, motoboyId)
                      /\ ~ (/\ last'.code = 400
                            /\ last'.events = NoEvents
                            /\ tablesUnchanged))

\* a courier assignment was rejected on a ready counter order, which is
\* still ready and has no courier and no dispatched timestamp
C10_Witness ==
  /\ last.op = "assign" /\ last.code = 400
  /\ last.id \in DOMAIN orders
  /\ orders[last.id].orderType = "counter"
  /\ orders[last.id].status = "ready"
  /\ orders[last.id].motoboyId = Null
  /\ orders[last.id].dispatchedAt = Null

(***************************************************************************)
(* C11: a successful courier assignment sets the courier of the order,     *)
(* leaves it dispatched with the dispatched timestamp set to the clock,    *)
(* and publishes an order_assigned and an order_status_changed event for   *)
(* the order.                                                              *)
(***************************************************************************)
C11_AssignPublishesBoth ==
  [][\A id \in DOMAIN orders :
       (last'.op = "assign" /\ last'.code = 200 /\ last'.id = id) =>
          /\ orders'[id].motoboyId \in MotoboyIds
          /\ orders'[id].status = "dispatched"
          /\ orders'[id].dispatchedAt = now
          /\ \E i \in 1..Len(last'.events) :
                /\ last'.events[i].event = "order_assigned"
                /\ last'.events[i].orderId = id
          /\ \E i \in 1..Len(last'.events) :
                /\ last'.events[i].event = "order_status_changed"
                /\ last'.events[i].orderId = id
    ]_vars

\* the columns the fee adjustment writes
feeColumns == {"deliveryFee", "originalDeliveryFee", "deliveryFeeAdjusted",
               "deliveryFeeAdjustedAt", "total"}

(***************************************************************************)
(* C12: a delivery-fee adjustment with a fee that is a number is answered  *)
(* 200 whatever the status of the order, leaves the status and every       *)
(* column but those of the fee as they were, sets deliveryFee to the new   *)
(* fee and total to subtotal - discount + fee, and writes the fee the      *)
(* order had into originalDeliveryFee on the first adjustment only: an     *)
(* adjusted order always holds in originalDeliveryFee the fee it was       *)
(* created with.                                                           *)
(***************************************************************************)
C12_FeeAdjustment ==
  \A id \in DOMAIN orders :
     /\ IF orders[id].deliveryFeeAdjusted
          THEN orders[id].originalDeliveryFee = bodyMoney(orders[id].orderType).deliveryFee
          ELSE /\ orders[id].originalDeliveryFee = Null
               /\ orders[id].deliveryFee = bodyMoney(orders[id].orderType).deliveryFee
     /\ \A fee \in Fees :
          ~ ENABLED (/\ UpdateDeliveryFee(id, fee)
                     /\ ~ (/\ last'.code = 200
                           /\ orders'[id].status = orders[id].status
                           /\ orders'[id].deliveryFee = fee
                           /\ orders'[id].total =
                                orders[id].subtotal - orders[id].discount + fee
                           /\ orders'[id].originalDeliveryFee =
                                (IF orders[id].deliveryFeeAdjusted
                                   THEN orders[id].originalDeliveryFee
                                   ELSE orders[id].deliveryFee)
                           /\ \A f \in DOMAIN orders[id] \ feeColumns :
                                orders'[id][f] = orders[id][f]))

\* the fee of a delivered counter order, created with the fee 0.00, was
\* adjusted to 3.00: the order is still delivered and holds 0.00 as its
\* original fee, which every further adjustment has to keep
C12_Witness ==
  /\ last.op = "fee" /\ last.code = 200
  /\ last.id \in DOMAIN orders
  /\ last.events[1].originalFee = 0 /\ last.events[1].newFee = 300
  /\ LET order == orders[last.id]
     IN  /\ order.orderType = "counter"
         /\ order.status = "delivered"
         /\ order.deliveryFeeAdjusted
         /\ order.originalDeliveryFee = 0
         /\ order.deliveryFee = 300
         /\ order.total = 1100

(***************************************************************************)
(* C13: a status request that did not write the order (it was rejected, or *)
(* the write of the order failed) has restored no stock, appended no stock *)
(* log entry and published no event.                                       *)
(***************************************************************************)
C13_NoPartialStatusChange ==
  [][(last'.op = "status" /\ last'.code # 200) =>
        /\ orders' = orders
        /\ products' = products
        /\ stockLogs' = stockLogs
        /\ last'.events = NoEvents
    ]_vars

\* the entries of a log that restore stock of product p for order id
restoredBy(logs, id, p) ==
  SelectSeq(logs, LAMBDA e : /\ e.productId = p
                             /\ e.reason = [kind |-> "Cancelamento pedido",
                                            ref |-> slice8(OrderUuid(id))])

\* the step ends a status request on order id with the answer 200
statusAnswered(id) ==
  /\ Len(inflight') < Len(inflight)
  /\ last'.op = "status" /\ last'.code = 200 /\ last'.id = id

(***************************************************************************)
(* C14: status requests on one order take effect one after the other: a    *)
(* request that is answered 200 was validated against the status the order *)
(* has when the request writes it, and the cancellations of an order       *)
(* restore of every product at most the quantity the order holds of it.    *)
(***************************************************************************)
C14_Serialized ==
  [][\A id \in DOMAIN orders :
       statusAnswered(id) =>
          /\ last'.currentStatus = orders[id].status
          /\ \A p \in ProductIds :
               changeOf(restoredBy(stockLogs', id, p), p) <= quantityOf(linesOf(id), p)
    ]_vars

(***************************************************************************)
(* C15: no stock delta is lost: for every product the previousStock of a   *)
(* log entry is the newStock of the entry written before it for that       *)
(* product, and when no handler is in flight the stock of the product is   *)
(* the newStock of its latest entry; when no deduction was clamped it is   *)
(* the initial stock plus the changes of its entries.                      *)
(***************************************************************************)
C15_NoLostDelta ==
  \A p \in ProductIds :
     LET entries == SelectSeq(stockLogs, LAMBDA e : e.productId = p)
     IN  /\ \A k \in 2..Len(entries) :
               entries[k].previousStock = entries[k - 1].newStock
         /\ (inflight = <<>> /\ entries # <<>>) =>
               /\ products[p].stock = entries[Len(entries)].newStock
               /\ (\A k \in 1..Len(entries) :
                      entries[k].newStock = entries[k].previousStock + entries[k].change)
                    => products[p].stock = MaxStock + changeOf(entries, p)

\* the routes that broadcast
HandlerOps == {"create", "status", "assign", "fee", "delete"}

\* the step is a handler that broadcast the event of its response
published == last'.op \in HandlerOps /\ last'.events # NoEvents

(***************************************************************************)
(* C16: a broadcast appends its event exactly once to every connection     *)
(* that was in the Set before it and is still in the Set after it, and     *)
(* writes to no other connection; a connection that registers is written   *)
(* the connected message and none of the events broadcast before.          *)
(***************************************************************************)
C16_PublishReachesRegistered ==
  [][/\ published =>
          \A c \in ClientIds :
             IF c \in Range(orderClients) /\ c \in Range(orderClients')
               THEN received'[c] = received[c] \o last'.events
               ELSE received'[c] = received[c]
     /\ last'.op = "sse" =>
          /\ received[last'.id] = <<>>
          /\ received'[last'.id] = <<sseMessage("connected")>>
          /\ \A c \in ClientIds \ {last'.id} : received'[c] = received[c]
    ]_vars

\* two connections are open; the first was written two events, the second,
\* registered between the two, only the later one
C16_Witness ==
  /\ Range(orderClients) = {1, 2}
  /\ Len(received[1]) = 3 /\ Len(received[2]) = 2
  /\ received[1][2] # received[1][3]
  /\ received[2][2] = received[1][3]
  /\ last.events = <<received[1][3]>>

(***************************************************************************)
(* C17: a connection whose write throws during a broadcast is deleted from *)
(* the Set in that broadcast and is not written the event, every other     *)
(* connection of the Set is written the event of that broadcast, and a     *)
(* connection that has left the Set is never written to again nor put      *)
(* back.                                                                   *)
(***************************************************************************)
C17_FailedWritePruned ==
  [][/\ published =>
          /\ \A c \in last'.pruned :
                /\ c \in Range(orderClients)
                /\ c \notin Range(orderClients')
                /\ received'[c] = received[c]
          /\ \A c \in Range(orderClients) \ last'.pruned :
                /\ c \in Range(orderClients')
                /\ received'[c] = Append(received[c], last'.events[1])
     /\ \A c \in ClientIds :
          (received[c] # <<>> /\ c \notin Range(orderClients)) =>
             /\ received'[c] = received[c]
             /\ c \notin Range(orderClients')
    ]_vars

\* the write to the first connection threw in a broadcast that reached the
\* second: the first has left the Set without the event
C17_Witness ==
  /\ last.pruned = {1}
  /\ last.events # NoEvents
  /\ orderClients = <<2>>
  /\ received[1] = <<sseMessage("connected")>>
  /\ received[2] = <<sseMessage("connected"), last.events[1]>>

(***************************************************************************)
(* C18: every stock log entry records a newStock that is                   *)
(* max(0, previousStock + delta) and a change that is the delta applied:   *)
(* change = newStock - previousStock, also when a deduction was clamped    *)
(* at zero.                                                                *)
(***************************************************************************)
C18_ChangeIsDelta ==
  \A k \in 1..Len(stockLogs) :
     /\ stockLogs[k].newStock = Max(0, stockLogs[k].previousStock + stockLogs[k].change)
     /\ stockLogs[k].change = stockLogs[k].newStock - stockLogs[k].previousStock

(***************************************************************************)
(* C19: every change of the stock of a product is in the stock log: a      *)
(* product that has log entries has the newStock of its latest entry as    *)
(* its stock, and the previousStock of each of its entries is the newStock *)
(* of the entry before it.                                                 *)
(***************************************************************************)
C19_AllThroughLedger ==
  \A p \in ProductIds :
     LET entries == SelectSeq(stockLogs, LAMBDA e : e.productId = p)
     IN  /\ entries # <<>> => products[p].stock = entries[Len(entries)].newStock
         /\ \A k \in 2..Len(entries) :
               entries[k].previousStock = entries[k - 1].newStock

(***************************************************************************)
(* C20: DELETE on an existing order, whatever its status, is answered 204, *)
(* removes the order, publishes one order_deleted event for it and nothing *)
(* else, and leaves the stock of every product and the stock log as they   *)
(* were.                                                                   *)
(***************************************************************************)
C20_DeleteKeepsStock ==
  [][\A id \in DOMAIN orders :
       (last'.op = "delete" /\ last'.id = id) =>
          /\ last'.code = 204
          /\ id \notin DOMAIN orders'
          /\ \A other \in DOMAIN orders \ {id} :
                other \in DOMAIN orders' /\ orders'[other] = orders[other]
          /\ last'.events = <<deletedEvent(id)>>
          /\ products' = products
          /\ stockLogs' = stockLogs
    ]_vars

\* an order that took one unit of product 1 was deleted without having been
\* cancelled: the unit is still missing and the log holds the deduction only
C20_Witness ==
  /\ last.op = "delete" /\ last.code = 204
  /\ last.id \notin DOMAIN orders
  /\ Len(stockLogs) = 1
  /\ stockLogs[1].productId = 1
  /\ stockLogs[1].reason = [kind |-> "Pedido", ref |-> slice8(OrderUuid(last.id))]
  /\ stockLogs[1].previousStock = 2 /\ stockLogs[1].newStock = 1
  /\ products[1].stock = 1


(***************************************************************************)
(* C21: a counter order created in pending, accepted or ready is never in  *)
(* dispatched or arrived and never carries a courier, whatever status and  *)
(* assignment requests are made on it; every assignment request on it is   *)
(* refused, and from ready a status request succeeds exactly when it asks  *)
(* for delivered or cancelled.                                             *)
(***************************************************************************)
C21_CounterNeverHandedOver ==
  \A id \in DOMAIN orders :
     orders[id].orderType = "counter" =>
       /\ orders[id].status \notin {"dispatched", "arrived"}
       /\ orders[id].motoboyId = Null
       /\ \A motoboyId \in MotoboyIds :
             ~ENABLED (AssignMotoboy(id, motoboyId) /\ last'.code # 400)
       /\ orders[id].status = "ready" =>
            \A status \in RequestStatuses :
               IF status \in {"delivered", "cancelled"}
                 THEN /\ ENABLED (UpdateStatus(id, status) /\ last'.code = 200)
                      /\ ~ENABLED (UpdateStatus(id, status) /\ last'.code # 200)
                 ELSE ~ENABLED (UpdateStatus(id, status) /\ last'.code # 400)

\* a counter order went all the way from pending to delivered without a
\* courier
C21_Witness ==
  \E id \in DOMAIN orders :
     /\ orders[id].orderType = "counter"
     /\ orders[id].status = "delivered"
     /\ orders[id].acceptedAt # Null /\ orders[id].preparingAt # Null
     /\ orders[id].readyAt # Null /\ orders[id].deliveredAt # Null
     /\ orders[id].dispatchedAt = Null /\ orders[id].arrivedAt = Null
     /\ orders[id].motoboyId = Null


(***************************************************************************)
(* C22: the total of every order is its subtotal minus its discount plus   *)
(* its delivery fee, from its creation by Checkout or by the PDV on and    *)
(* after every adjustment of its delivery fee.                             *)
(***************************************************************************)
C22_TotalIsSum ==
  \A id \in DOMAIN orders :
     orders[id].total
       = orders[id].subtotal - orders[id].discount + orders[id].deliveryFee


C24_RejectionCarriesRow ==
  \A id \in DOMAIN orders : \A status \in RequestStatuses :
     LET row == allowedNext(orders[id].orderType, orders[id].status)
     IN  ~ENABLED (/\ UpdateStatus(id, status)
                   /\ last'.code = 400
                   /\ ~ (/\ last'.currentStatus = orders[id].status
                         /\ orders'[id].status = orders[id].status
                         /\ Range(last'.allowedTransitions) = row
                         /\ Len(last'.allowedTransitions) = Cardinality(row)))

\* a request on a dispatched delivery order was rejected with the three
\* statuses of its row
C24_Witness ==
  /\ last.op = "status" /\ last.code = 400
  /\ last.id \in DOMAIN orders
  /\ orders[last.id].orderType = "delivery"
  /\ orders[last.id].status = "dispatched"
  /\ last.currentStatus = "dispatched"
  /\ last.allowedTransitions = <<"arrived", "delivered", "cancelled">>


(***************************************************************************)
(* C25: the status of every order is one of the eight order statuses,      *)
(* whatever status the bodies of the creation and status requests carry.   *)
(***************************************************************************)
C25_StatusInDomain ==
  \A id \in DOMAIN orders : orders[id].status \in Statuses


C27_StatusChangePublished ==
  [][/\ \A id \in DOMAIN orders :
          orders'[id].status # orders[id].status =>
             /\ Cardinality({i \in 1..Len(last'.events) :
                               last'.events[i].event = "order_status_changed"}) = 1
             /\ \E i \in 1..Len(last'.events) :
                   /\ last'.events[i].event = "order_status_changed"
                   /\ last'.events[i].orderId = id
                   /\ last'.events[i].previousStatus = orders[id].status
                   /\ last'.events[i].status = orders'[id].status
     /\ last'.code = 400 => last'.events = NoEvents
    ]_vars


\* the place of a status in the flow
rank(status) ==
  CASE status = "pending"    -> 0
    [] status = "accepted"   -> 1
    [] status = "preparing"  -> 2
    [] status = "ready"      -> 3
    [] status = "dispatched" -> 4
    [] status = "arrived"    -> 5
    [] status = "delivered"  -> 6
    [] status = "cancelled"  -> 7

\* the status changes an order created without timestamps has been
\* through: one for each timestamp written and one for its cancellation
changesOf(order) ==
  Cardinality({f \in TimestampFields : order[f] # Null})
    + (IF order.status = "cancelled" THEN 1 ELSE 0)

C29_RemovedChannelSilent ==
  /\ [](heartbeats \subseteq Range(orderClients))
  /\ [][\A client \in ClientIds :
          (received[client] # <<>> /\ client \notin Range(orderClients)) =>
             received'[client] = received[client]]_vars


(***************************************************************************)
(* C30: every order in dispatched or arrived has a courier, whatever       *)
(* status and assignment requests were made on it since it was created     *)
(* without one.                                                            *)
(***************************************************************************)
C30_DispatchedHasCourier ==
  \A id \in DOMAIN orders :
     orders[id].status \in {"dispatched", "arrived"} =>
        orders[id].motoboyId \in MotoboyIds

====
